---- MODULE Spec2Model ----
(***************************************************************************)
(* replace-env: environment-variable placeholders in raw configuration     *)
(* values (crates/replace-env) and the derive macro that generates the raw *)
(* shadow struct, its ReplaceEnv impl and its From<Raw> conversion         *)
(* (crates/derive-replace-env).                                            *)
(*                                                                         *)
(* Strings are sequences of one-character strings; all characters used are *)
(* ASCII, so byte offsets and character offsets coincide.                  *)
(***************************************************************************)
EXTENDS Integers, Sequences, FiniteSets, TLC

VARIABLES
    pc,        \* position of the run
    field,     \* the field declaration handed to the derive macro (MyFieldReceiver)
    inner,     \* the declaration of the nested struct's leaf, when the field is nested
    generated, \* what the derive macro emitted for the field
    env,       \* the process environment
    raw,       \* the raw value (self / raw.#name)
    typed,     \* the converted value
    log,       \* warnings emitted through tracing::warn!
    lookups,   \* names handed to std::env::var, in order
    parses,    \* strings handed to str::parse, in order
    panic,     \* the panic raised, if any
    doc        \* the raw value as the deserializer supplied it

vars == <<pc, field, inner, generated, env, raw, typed, log, lookups, parses, panic, doc>>

----------------------------------------------------------------------------
(* Bounds *)

\* Longest string the string specification draws exhaustively.
MaxLen == 4

\* Longest name and longest default of the placeholders it draws besides.
MaxPart == 2

----------------------------------------------------------------------------
(* Values *)

None == [kind |-> "none"]
Some(v) == [kind |-> "some", val |-> v]
Str(s) == [kind |-> "str", str |-> s]

Unset == [kind |-> "Unset"]
Invalid == [kind |-> "Invalid"]
Text(v) == [kind |-> "Text", val |-> v]

NoPanic == [kind |-> "none"]
Nothing == [kind |-> "nothing"]

\* All strings over alphabet A of length at most n.
RECURSIVE StringsUpTo(_, _)
StringsUpTo(A, n) ==
    IF n = 0 THEN {<<>>}
    ELSE LET shorter == StringsUpTo(A, n - 1)
         IN shorter \cup {Append(s, c) : s \in {t \in shorter : Len(t) = n - 1}, c \in A}

----------------------------------------------------------------------------
(* crates/replace-env *)

\* str::starts_with with a [char; 2] pattern: the first character is any one
\* of the characters of the array.
starts_with_any(string, chars) == Len(string) >= 1 /\ string[1] \in chars

ends_with(string, c) == Len(string) >= 1 /\ string[Len(string)] = c

\* A split at the last delimiter instead of the first (str::rsplit_once).
split_at_last(string, c) ==
    IF \E i \in 1..Len(string) : string[i] = c
    THEN LET i == CHOOSE k \in 1..Len(string) :
                    string[k] = c /\ \A j \in (k + 1)..Len(string) : string[j] # c
         IN Some(<<SubSeq(string, 1, i - 1), SubSeq(string, i + 1, Len(string))>>)
    ELSE None

\* str::split_once: None, or the parts before and after the first delimiter.
split_once(string, c) ==
    IF \E i \in 1..Len(string) : string[i] = c
    THEN LET i == CHOOSE k \in 1..Len(string) :
                    string[k] = c /\ \A j \in 1..(k - 1) : string[j] # c
         IN Some(<<SubSeq(string, 1, i - 1), SubSeq(string, i + 1, Len(string))>>)
    ELSE None

\* std::env::var: an empty name is never present.
env_var(e, name) ==
    IF name # <<>> /\ name \in DOMAIN e
    THEN CASE e[name].kind = "Text" -> [kind |-> "Ok", val |-> e[name].val]
           [] e[name].kind = "Invalid" -> [kind |-> "NotUnicode"]
           [] OTHER -> [kind |-> "NotPresent"]
    ELSE [kind |-> "NotPresent"]

\* A fallback warning that words both lookup failures alike.
fallback_warning_one_text(var_error, secret, env_name, default_value) ==
    IF secret
    THEN [fmt |-> "ENV variable \"{env_name}\" not present. Using secret default.",
          args |-> <<env_name>>]
    ELSE [fmt |-> "ENV variable \"{env_name}\" not present. Using default: \"{default_value}\"",
          args |-> <<env_name, default_value>>]

\* The warn! line of the fallback: its format string and its arguments.
fallback_warning(var_error, secret, env_name, default_value) ==
    CASE var_error = "NotPresent" /\ ~secret ->
            [fmt |-> "ENV variable \"{env_name}\" not present. Using default: \"{default_value}\"",
             args |-> <<env_name, default_value>>]
      [] var_error = "NotPresent" /\ secret ->
            [fmt |-> "ENV variable \"{env_name}\" not present. Using secret default.",
             args |-> <<env_name>>]
      [] var_error = "NotUnicode" /\ ~secret ->
            [fmt |-> "ENV variable \"{env_name}\" doest not contain valid unicode! Using default: \"{default_value}\"",
             args |-> <<env_name, default_value>>]
      [] var_error = "NotUnicode" /\ secret ->
            [fmt |-> "ENV variable \"{env_name}\" doest not contain valid unicode! Using secret default.",
             args |-> <<env_name>>]

Unchanged(string) ==
    [string |-> string, log |-> <<>>, lookups |-> <<>>, panicked |-> FALSE]

\* The condition of the outer `if`.
placeholder_guard(string) ==
    starts_with_any(string, {"$", "{"}) /\ ends_with(string, "}")

\* replace_env_in_string: the string afterwards, the warnings, the lookups,
\* and whether a slice index was out of range.
replace_env_in_string(string, metadata, e) ==
    IF placeholder_guard(string)
    THEN LET split == split_once(string, ":")
         IN IF split.kind = "some"
            THEN LET before == split.val[1]
                     after == split.val[2]
                 IN IF Len(before) < 2
                    THEN \* &env_name[2..env_name.len()] with len < 2
                         [string |-> string, log |-> <<>>, lookups |-> <<>>,
                          panicked |-> TRUE]
                    ELSE LET env_name == SubSeq(before, 3, Len(before))
                             default_value == SubSeq(after, 1, Len(after) - 1)
                             got == env_var(e, env_name)
                         IN IF got.kind = "Ok"
                            THEN [string |-> got.val, log |-> <<>>,
                                  lookups |-> <<env_name>>, panicked |-> FALSE]
                            ELSE [string |-> default_value,
                                  log |-> <<fallback_warning(got.kind, metadata.secret,
                                                             env_name, default_value)>>,
                                  lookups |-> <<env_name>>, panicked |-> FALSE]
            ELSE Unchanged(string)
    ELSE Unchanged(string)

\* impl ReplaceEnv for String
replace_env_String(self, metadata, e) ==
    LET r == replace_env_in_string(self.str, metadata, e)
    IN [r EXCEPT !.string = Str(r.string)]

\* impl ReplaceEnv for Option<String>
replace_env_Option(self, metadata, e) ==
    IF self.kind = "some"
    THEN LET r == replace_env_in_string(self.val.str, metadata, e)
         IN [r EXCEPT !.string = Some(Str(r.string))]
    ELSE [string |-> self, log |-> <<>>, lookups |-> <<>>, panicked |-> FALSE]

----------------------------------------------------------------------------
(* crates/derive-replace-env: the derive macro                              *)

\* A field's declared type: a path `ident` or `Option<ident>`.
Plain(ident) == [path |-> ident, arg |-> ""]
OptionOf(ident) == [path |-> "Option", arg |-> ident]

get_type_info(ty) ==
    IF ty.path = "Option"
    THEN [is_option |-> TRUE, ident |-> ty.arg]
    ELSE [is_option |-> FALSE, ident |-> ty.path]

\* The identifiers matched in MyFieldReceiver::raw_type.
PrimitiveIdents ==
    {"String", "u8", "u16", "u32", "u64", "u128",
     "i8", "i16", "i32", "i64", "i128", "f32", "f64", "bool"}

RedundantMessage ==
    "Do not specify `replace_env(raw_type = \"String\")` for primitive types for which 'String' will be the inferred type anyway."
ExpectedPrimitiveMessage == "Expected a primitive type like `String`, 'u32', ... But got: {other}"

\* raw_type without the check for a redundant `raw_type = "String"`.
raw_type_any_override(f) ==
    LET ti == get_type_info(f.ty)
    IN IF f.raw_type.kind = "some"
       THEN [kind |-> "ok", is_option |-> ti.is_option, ident |-> f.raw_type.val]
       ELSE IF ti.ident \in PrimitiveIdents
            THEN [kind |-> "ok", is_option |-> ti.is_option, ident |-> "String"]
            ELSE [kind |-> "abort", message |-> ExpectedPrimitiveMessage]

\* MyFieldReceiver::raw_type: the raw type, or the abort! it ends the macro with.
raw_type(f) ==
    LET ti == get_type_info(f.ty)
    IN IF f.raw_type.kind = "some"
       THEN IF f.raw_type.val = "String" /\ ti.ident \in PrimitiveIdents
            THEN [kind |-> "abort", message |-> RedundantMessage]
            ELSE [kind |-> "ok", is_option |-> ti.is_option, ident |-> f.raw_type.val]
       ELSE IF ti.ident \in PrimitiveIdents
            THEN [kind |-> "ok", is_option |-> ti.is_option, ident |-> "String"]
            ELSE [kind |-> "abort", message |-> ExpectedPrimitiveMessage]

\* Option::unwrap_or
unwrap_or(o, d) == IF o.kind = "some" THEN o.val ELSE d

\* A Metadata that drops the field's secret attribute.
field_metadata_never_secret(f) == [secret |-> FALSE]

\* replace_env_field_initializers: the Metadata the generated replace_env
\* hands to the field's own replace_env.
field_metadata(f) == [secret |-> unwrap_or(f.secret, FALSE)]

\* conv_actiono: how `orig` becomes the field's value.
conv_actiono(ti) ==
    IF ti.ident = "bool" THEN [kind |-> "parse", ty |-> "bool"]
    ELSE IF ti.ident = "u32" THEN [kind |-> "parse", ty |-> "u32"]
    ELSE [kind |-> "into", ty |-> ti.ident]

\* A wrapper choice without the empty-string arm.
final_conv_action_no_empty_arm(rt) == IF rt.is_option THEN "map" ELSE "plain"

\* final_conv_action: the wrapper chosen from (raw_type.is_option, raw_type.ident == "String").
final_conv_action(rt) ==
    IF rt.is_option /\ rt.ident = "String" THEN "some_unless_empty"
    ELSE IF rt.is_option THEN "map"
    ELSE "plain"

\* store: what the macro emits for the field, or the abort!.
store(f) ==
    LET rt == raw_type(f)
        ti == get_type_info(f.ty)
    IN IF rt.kind = "abort"
       THEN rt
       ELSE [kind |-> "ok",
             name |-> f.name,
             type_info |-> ti,
             raw_type |-> [is_option |-> rt.is_option, ident |-> rt.ident],
             metadata |-> field_metadata(f),
             conv |-> conv_actiono(ti),
             final |-> final_conv_action(rt)]

----------------------------------------------------------------------------
(* The generated code                                                      *)

Doc(leaf) == [kind |-> "doc", leaf |-> leaf]

Ok(v) == [kind |-> "ok", val |-> v]
Err(e) == [kind |-> "err", error |-> e]

\* <bool as FromStr>::from_str
from_str_bool(s) ==
    IF s = <<"t", "r", "u", "e">> THEN Ok([kind |-> "bool", bool |-> TRUE])
    ELSE IF s = <<"f", "a", "l", "s", "e">> THEN Ok([kind |-> "bool", bool |-> FALSE])
    ELSE Err("provided string was not true or false")

DigitValue ==
    ("0" :> 0) @@ ("1" :> 1) @@ ("2" :> 2) @@ ("3" :> 3) @@ ("4" :> 4) @@
    ("5" :> 5) @@ ("6" :> 6) @@ ("7" :> 7) @@ ("8" :> 8) @@ ("9" :> 9)

\* A u32 is kept as two decimal limbs, hi * 10^5 + lo, so that 2^32 - 1 =
\* 42949 * 10^5 + 67295 is exact.
U32(hi, lo) == [kind |-> "u32", hi |-> hi, lo |-> lo]

\* The digit loop of <u32 as FromStr>::from_str: checked_mul(10), then
\* checked_add(digit), left to right.
RECURSIVE u32_digits(_, _, _)
u32_digits(digits, i, acc) ==
    IF i > Len(digits) THEN Ok(acc)
    ELSE IF digits[i] \notin DOMAIN DigitValue
         THEN Err("invalid digit found in string")
         ELSE LET low == acc.lo * 10 + DigitValue[digits[i]]
                  hi == acc.hi * 10 + (low \div 100000)
                  lo == low % 100000
              IN IF hi > 42949 \/ (hi = 42949 /\ lo > 67295)
                 THEN Err("number too large to fit in target type")
                 ELSE u32_digits(digits, i + 1, U32(hi, lo))

\* <u32 as FromStr>::from_str
from_str_u32(s) ==
    IF s = <<>> THEN Err("cannot parse integer from empty string")
    ELSE LET digits == IF s[1] = "+" THEN Tail(s) ELSE s
         IN IF digits = <<>>
            THEN Err("invalid digit found in string")
            ELSE u32_digits(digits, 1, U32(0, 0))

BoolExpectation ==
    "Expected field '{name}' to be of type bool. But value read was: '{}', which was not parsable to a bool. Use 'false' or 'true'. Original error was: '{}'"
U32Expectation ==
    "Expected field '{name}' to be of type u32. But value read was: '{}', which was not parsable to a u32. Original error was: '{}'"

\* The struct the nested field refers to: `Inner`, deriving ReplaceEnv, with
\* the one field `leaf: String`; `Text` is `type Text = String;`.
underlying(ident) == IF ident = "Text" THEN "String" ELSE ident

\* Whether rustc accepts the generated impls for the field: the raw field's
\* type implements ReplaceEnv, `orig` has `parse`, and `From` exists for
\* `orig.into()`.
typechecks(g) ==
    /\ \/ underlying(g.raw_type.ident) = "String"
       \/ g.raw_type.ident = "RawInner" /\ ~g.raw_type.is_option
    /\ IF g.conv.kind = "parse"
       THEN underlying(g.raw_type.ident) = "String"
       ELSE \/ underlying(g.raw_type.ident) = "String" /\ g.conv.ty = "String"
            \/ g.raw_type.ident = "RawInner" /\ g.conv.ty = "Inner"

\* A generated replace_env that lets the enclosing field's Metadata reach the leaf.
replace_env_RawInner_inheriting(self, metadata, leaf, e) ==
    LET r == replace_env_String(
                 self.leaf, [secret |-> metadata.secret \/ store(leaf).metadata.secret], e)
    IN [r EXCEPT !.string = Doc(r.string)]

\* The generated replace_env of RawInner: its _metadata parameter is unused,
\* the leaf gets the Metadata of its own declaration.
replace_env_RawInner(self, metadata, leaf, e) ==
    LET r == replace_env_String(self.leaf, store(leaf).metadata, e)
    IN [r EXCEPT !.string = Doc(r.string)]

\* One field initializer of the generated replace_env.
replace_env_field(g, value, leaf, e) ==
    IF underlying(g.raw_type.ident) = "String"
    THEN IF g.raw_type.is_option
         THEN replace_env_Option(value, g.metadata, e)
         ELSE replace_env_String(value, g.metadata, e)
    ELSE replace_env_RawInner(value, g.metadata, leaf, e)

\* The expansion of conv_actiono on `orig`: the value, or the panic!, and the
\* strings handed to parse.
RECURSIVE run_conv(_, _, _)
run_conv(g, orig, leaf) ==
    IF g.conv.kind = "parse"
    THEN LET r == IF g.conv.ty = "bool" THEN from_str_bool(orig.str)
                  ELSE from_str_u32(orig.str)
         IN IF r.kind = "ok"
            THEN [kind |-> "ok", val |-> r.val, parses |-> <<orig.str>>]
            ELSE [kind |-> "panic", parses |-> <<orig.str>>,
                  panic |-> [kind |-> "parse",
                             fmt |-> IF g.conv.ty = "bool" THEN BoolExpectation
                                     ELSE U32Expectation,
                             name |-> g.name,
                             value |-> orig.str,
                             error |-> r.error]]
    ELSE IF orig.kind = "doc"
         THEN \* From<RawInner> for Inner
              LET r == run_conv(store(leaf), orig.leaf, Nothing)
              IN IF r.kind = "ok"
                 THEN [r EXCEPT !.val = [kind |-> "Inner", leaf |-> r.val]]
                 ELSE r
         ELSE \* From<String> for String
              [kind |-> "ok", val |-> orig, parses |-> <<>>]

\* The expansion of final_conv_action on raw.#name.
run_final_conv(g, value, leaf) ==
    CASE g.final = "some_unless_empty" ->
            IF value.kind = "some"
            THEN IF value.val = Str(<<>>)
                 THEN [kind |-> "ok", val |-> None, parses |-> <<>>]
                 ELSE LET r == run_conv(g, value.val, leaf)
                      IN IF r.kind = "ok" THEN [r EXCEPT !.val = Some(r.val)] ELSE r
            ELSE [kind |-> "ok", val |-> None, parses |-> <<>>]
      [] g.final = "map" ->
            IF value.kind = "some"
            THEN LET r == run_conv(g, value.val, leaf)
                 IN IF r.kind = "ok" THEN [r EXCEPT !.val = Some(r.val)] ELSE r
            ELSE [kind |-> "ok", val |-> None, parses |-> <<>>]
      [] OTHER -> run_conv(g, value, leaf)

----------------------------------------------------------------------------
(* The string specification: replace_env on a String or an Option<String>, *)
(* over every string up to MaxLen and every ${N:D} with parts up to        *)
(* MaxPart.                                                                *)

Alphabet == {"$", "{", "}", ":", "a"}

Placeholder(N, D) == <<"$", "{">> \o N \o <<":">> \o D \o <<"}">>

StringInputs ==
    StringsUpTo(Alphabet, MaxLen)
        \cup {Placeholder(N, D) : N \in StringsUpTo(Alphabet \ {":"}, MaxPart),
                                  D \in StringsUpTo(Alphabet, MaxPart)}

StringEnvs == {(<<"a">> :> v) : v \in {Unset, Invalid, Text(<<>>), Text(<<"a", ":">>)}}

InitString ==
    /\ pc = "raw"
    /\ field = Nothing
    /\ inner = Nothing
    /\ generated = Nothing
    /\ env \in StringEnvs
    /\ raw \in {Str(s) : s \in StringInputs} \cup {Some(Str(s)) : s \in StringInputs}
             \cup {None}
    /\ doc = raw
    /\ typed = Nothing
    /\ log = <<>>
    /\ lookups = <<>>
    /\ parses = <<>>
    /\ panic = NoPanic

\* What a call of replace_env_in_string leaves behind, `value` being the
\* receiver afterwards.
Resolved(r, value) ==
    /\ raw' = value
    /\ log' = log \o r.log
    /\ lookups' = lookups \o r.lookups
    /\ panic' = IF r.panicked THEN [kind |-> "slice_index"] ELSE NoPanic
    /\ pc' = IF r.panicked THEN "panicked" ELSE "resolved"

ReplaceEnvString(metadata) ==
    /\ pc = "raw"
    /\ generated = Nothing
    /\ raw.kind = "str"
    /\ LET r == replace_env_String(raw, metadata, env) IN Resolved(r, r.string)
    /\ UNCHANGED <<field, inner, generated, env, typed, parses, doc>>

ReplaceEnvOption(metadata) ==
    /\ pc = "raw"
    /\ generated = Nothing
    /\ raw.kind \in {"some", "none"}
    /\ LET r == replace_env_Option(raw, metadata, env) IN Resolved(r, r.string)
    /\ UNCHANGED <<field, inner, generated, env, typed, parses, doc>>

NextString ==
    \E metadata \in [secret : BOOLEAN] :
        \/ ReplaceEnvString(metadata)
        \/ ReplaceEnvOption(metadata)

SpecString == InitString /\ [][NextString]_vars

----------------------------------------------------------------------------
(* The pipeline specification: one field declaration through the macro,    *)
(* the compiler, the deserializer, the generated replace_env and the       *)
(* generated From.                                                         *)

\* The primitive target types: string, bool, the 8/16/32/64/128-bit signed and
\* unsigned integers, the 32/64-bit floats.
IntegerTypes == {"u8", "u16", "u32", "u64", "u128", "i8", "i16", "i32", "i64", "i128"}
PrimitiveTypes == {"String", "bool", "f32", "f64"} \cup IntegerTypes

TargetIdents == PrimitiveTypes \cup {"Inner"}

FieldDecls ==
    [name : {"value"},
     ty : {Plain(t) : t \in TargetIdents} \cup {OptionOf(t) : t \in TargetIdents},
     secret : {None, Some(TRUE), Some(FALSE)},
     raw_type : {None, Some("String"), Some("RawInner"), Some("Text")}]

LeafDecls ==
    [name : {"leaf"}, ty : {Plain("String")},
     secret : {None, Some(TRUE), Some(FALSE)}, raw_type : {None}]

\* Whether the declaration refers to the nested struct.
IsNested(f) == get_type_info(f.ty).ident = "Inner" \/ f.raw_type = Some("RawInner")

Name == <<"N">>
Other == <<"M">>

Literals ==
    {<<>>, <<"t", "r", "u", "e">>, <<"f", "a", "l", "s", "e">>, <<"a", "b", "c">>,
     <<"3", "0">>, <<"+", "7">>, <<"0", "0", "7">>,
     <<"4", "2", "9", "4", "9", "6", "7", "2", "9", "5">>,
     <<"4", "2", "9", "4", "9", "6", "7", "2", "9", "6">>}

Defaults == {<<>>, <<"t", "r", "u", "e">>, <<"3", "0">>, <<"a", "b", "c">>, <<"a", ":", "b">>}

EnvTexts == {<<>>, <<"f", "a", "l", "s", "e">>, <<"5", "0", "0">>, <<"a", "b", "c">>}

PipelineStrings ==
    Literals
        \cup {Placeholder(N, D) : N \in {Name, Other}, D \in Defaults}
        \cup {<<"{", "N", ":", "3", "0", "}">>, <<"$", ":", "3", "0", "}">>}

PipelineEnvs == {(Name :> v) : v \in {Unset, Invalid} \cup {Text(t) : t \in EnvTexts}}

\* The values a deserializer can supply for a raw field of the given type.
RawValues(rt) ==
    LET inner_values ==
            IF underlying(rt.ident) = "String"
            THEN {Str(s) : s \in PipelineStrings}
            ELSE {Doc(Str(s)) : s \in PipelineStrings}
    IN IF rt.is_option
       THEN {None} \cup {Some(v) : v \in inner_values}
       ELSE inner_values

Init ==
    /\ pc = "declared"
    /\ field \in FieldDecls
    /\ inner \in IF IsNested(field) THEN LeafDecls ELSE {Nothing}
    /\ generated = Nothing
    /\ env \in PipelineEnvs
    /\ raw = Nothing
    /\ doc = Nothing
    /\ typed = Nothing
    /\ log = <<>>
    /\ lookups = <<>>
    /\ parses = <<>>
    /\ panic = NoPanic

\* The derive macro runs on the declaration.
Store ==
    /\ pc = "declared"
    /\ generated' = store(field)
    /\ pc' = IF generated'.kind = "abort" THEN "aborted" ELSE "generated"
    /\ UNCHANGED <<field, inner, env, raw, typed, log, lookups, parses, panic, doc>>

\* rustc checks the generated impls.
Compile ==
    /\ pc = "generated"
    /\ pc' = IF typechecks(generated) THEN "compiled" ELSE "rejected"
    /\ UNCHANGED <<field, inner, generated, env, raw, typed, log, lookups, parses,
                   panic, doc>>

\* The deserializer supplies the raw value.
Deserialize ==
    /\ pc = "compiled"
    /\ raw' \in RawValues(generated.raw_type)
    /\ doc' = raw'
    /\ pc' = "raw"
    /\ UNCHANGED <<field, inner, generated, env, typed, log, lookups, parses, panic>>

\* The generated replace_env of the raw struct; its own _metadata is unused.
ReplaceEnv(metadata) ==
    /\ pc = "raw"
    /\ generated # Nothing
    /\ LET r == replace_env_field(generated, raw, inner, env) IN Resolved(r, r.string)
    /\ UNCHANGED <<field, inner, generated, env, typed, parses, doc>>

\* The generated From<Raw>.
From ==
    /\ pc = "resolved"
    /\ generated # Nothing
    /\ LET r == run_final_conv(generated, raw, inner)
       IN /\ parses' = parses \o r.parses
          /\ IF r.kind = "ok"
             THEN /\ typed' = r.val
                  /\ pc' = "typed"
                  /\ UNCHANGED panic
             ELSE /\ panic' = r.panic
                  /\ pc' = "panicked"
                  /\ UNCHANGED typed
    /\ UNCHANGED <<field, inner, generated, env, raw, log, lookups, doc>>

Next ==
    \/ Store
    \/ Compile
    \/ Deserialize
    \/ \E metadata \in [secret : BOOLEAN] : ReplaceEnv(metadata)
    \/ From

Spec == Init /\ [][Next]_vars

----------------------------------------------------------------------------
(* The placeholder shape as the documentation states it.                   *)

HasShape(s) ==
    /\ Len(s) >= 4
    /\ s[1] = "$" /\ s[2] = "{" /\ s[Len(s)] = "}"
    /\ \E i \in 3..(Len(s) - 1) : s[i] = ":"

FirstColon(s) == CHOOSE i \in 1..Len(s) : s[i] = ":" /\ \A j \in 1..(i - 1) : s[j] # ":"
NameOf(s) == SubSeq(s, 3, FirstColon(s) - 1)
DefaultOf(s) == SubSeq(s, FirstColon(s) + 1, Len(s) - 1)

Lookup(e, N) == IF N \in DOMAIN e THEN e[N] ELSE Unset

NotPresentTexts ==
    {"ENV variable \"{env_name}\" not present. Using default: \"{default_value}\"",
     "ENV variable \"{env_name}\" not present. Using secret default."}
NotUnicodeTexts ==
    {"ENV variable \"{env_name}\" doest not contain valid unicode! Using default: \"{default_value}\"",
     "ENV variable \"{env_name}\" doest not contain valid unicode! Using secret default."}

\* The string the deserializer supplied, and the string after resolution.
IsStringValue(v) == v.kind = "str" \/ (v.kind = "some" /\ v.val.kind = "str")
StringOf(v) == IF v.kind = "str" THEN v.str ELSE v.val.str
ResolveDone == pc \in {"resolved", "panicked"} /\ IsStringValue(doc)

\* C1: a string without the placeholder shape is returned unchanged, with no
\* environment lookup, no diagnostic and no failure.
C1_NonPlaceholderUnchanged ==
    (ResolveDone /\ ~HasShape(StringOf(doc)))
        => /\ pc = "resolved"
           /\ raw = doc
           /\ lookups = <<>>
           /\ log = <<>>

\* C2: a placeholder ${N:D} whose N the environment defines with valid text V
\* resolves to exactly V and logs no warning.
C2_EnvValueReplaces ==
    (ResolveDone /\ HasShape(StringOf(doc))
                 /\ Lookup(env, NameOf(StringOf(doc))).kind = "Text")
        => /\ pc = "resolved"
           /\ StringOf(raw) = Lookup(env, NameOf(StringOf(doc))).val
           /\ raw.kind = doc.kind
           /\ log = <<>>

\* A resolved placeholder whose default itself holds a ":" and whose variable
\* is defined.
C2_Witness ==
    /\ ResolveDone /\ HasShape(StringOf(doc))
    /\ Lookup(env, NameOf(StringOf(doc))).kind = "Text"
    /\ \E i \in 1..Len(DefaultOf(StringOf(doc))) : DefaultOf(StringOf(doc))[i] = ":"
    /\ StringOf(raw) = <<>>

\* C3: a placeholder ${N:D} whose lookup yields "absent" or "invalid text"
\* resolves to exactly D, logs exactly one warning whose text tells the two
\* outcomes apart, and does not fail.
C3_FallbackToDefault ==
    (ResolveDone /\ HasShape(StringOf(doc))
                 /\ Lookup(env, NameOf(StringOf(doc))).kind # "Text")
        => /\ pc = "resolved" /\ panic = NoPanic
           /\ StringOf(raw) = DefaultOf(StringOf(doc))
           /\ raw.kind = doc.kind
           /\ Len(log) = 1
           /\ (Lookup(env, NameOf(StringOf(doc))).kind = "Unset"
                   => log[1].fmt \in NotPresentTexts \ NotUnicodeTexts)
           /\ (Lookup(env, NameOf(StringOf(doc))).kind = "Invalid"
                   => log[1].fmt \in NotUnicodeTexts \ NotPresentTexts)

\* A placeholder with a non-empty default resolved to it because the variable
\* holds invalid text.
C3_Witness ==
    /\ ResolveDone /\ HasShape(StringOf(doc))
    /\ Lookup(env, NameOf(StringOf(doc))).kind = "Invalid"
    /\ StringOf(raw) = DefaultOf(StringOf(doc)) /\ StringOf(raw) # <<>>
    /\ Len(log) = 1

----------------------------------------------------------------------------
(* Claims about the pipeline.                                              *)

Generated == generated # Nothing /\ generated.kind = "ok"
AfterResolve == Generated /\ pc \in {"resolved", "typed", "panicked"}
AfterConversion ==
    Generated /\ (pc = "typed" \/ (pc = "panicked" /\ panic.kind = "parse"))

SecretTexts ==
    {"ENV variable \"{env_name}\" not present. Using secret default.",
     "ENV variable \"{env_name}\" doest not contain valid unicode! Using secret default."}

ParsedAs(ident, v) ==
    IF ident = "bool" THEN from_str_bool(v.str)
    ELSE IF ident = "u32" THEN from_str_u32(v.str)
    ELSE Ok(v)

\* C5: a non-optional field whose resolved value does not parse yields a
\* FieldParseError naming the field, returned to the caller; conversion does
\* not abort.
C5_ParseFailureReturned ==
    (Generated /\ pc \in {"typed", "panicked"} /\ parses # <<>>
               /\ ~get_type_info(field.ty).is_option
               /\ ParsedAs(get_type_info(field.ty).ident, raw).kind = "err")
        => /\ pc = "typed"
           /\ panic = NoPanic
           /\ typed.kind = "FieldParseError"
           /\ typed.field = field.name

\* C6: the text of a conversion failure of a secret field does not render
\* the field's value.
C6_SecretParseFailureHidesValue ==
    (Generated /\ pc = "panicked" /\ panic.kind = "parse"
               /\ field.secret = Some(TRUE) /\ parses[Len(parses)] # <<>>)
        => panic.value # parses[Len(parses)]

\* C7: an optional field converts to absent when the raw value is absent or,
\* for raw type String, present and empty, with no parse attempted; otherwise
\* the inner value is parsed per the target type and wrapped as present (a
\* failing parse ends the conversion).
C7_OptionalConversion ==
    (AfterConversion /\ get_type_info(field.ty).is_option)
        => IF raw = None \/ (generated.raw_type.ident = "String" /\ raw = Some(Str(<<>>)))
           THEN pc = "typed" /\ typed = None /\ parses = <<>>
           ELSE LET expected == ParsedAs(get_type_info(field.ty).ident, raw.val)
                IN IF expected.kind = "ok"
                   THEN pc = "typed" /\ typed = Some(expected.val)
                   ELSE pc = "panicked"

\* An optional String field whose placeholder resolved to the empty string
\* converted to absent.
C7_Witness ==
    /\ AfterConversion /\ pc = "typed"
    /\ doc = Some(Str(Placeholder(Name, <<>>)))
    /\ raw = Some(Str(<<>>))
    /\ typed = None

\* C8: a field of any integer type is converted by parsing with that type's
\* grammar.
C8_IntegerFieldsParsed ==
    (Generated /\ get_type_info(field.ty).ident \in IntegerTypes)
        => /\ generated.conv = [kind |-> "parse", ty |-> get_type_info(field.ty).ident]
           /\ pc # "rejected"

\* C9: the raw type is String for a primitive target without override, an
\* error for a non-primitive target without override, an error for an
\* override "String" on a primitive target, and the override otherwise; the
\* optionality of the field is that of its raw type.
C9_RawTypeDerivation ==
    generated # Nothing =>
        LET ti == get_type_info(field.ty)
            primitive == ti.ident \in PrimitiveTypes
            optional == field.ty.path = "Option"
        IN CASE field.raw_type = None /\ primitive ->
                    /\ generated.kind = "ok"
                    /\ generated.raw_type = [is_option |-> optional, ident |-> "String"]
             [] field.raw_type = None /\ ~primitive ->
                    /\ generated.kind = "abort"
                    /\ generated.message = ExpectedPrimitiveMessage
             [] field.raw_type = Some("String") /\ primitive ->
                    /\ generated.kind = "abort"
                    /\ generated.message = RedundantMessage
             [] OTHER ->
                    /\ generated.kind = "ok"
                    /\ generated.raw_type =
                           [is_option |-> optional, ident |-> field.raw_type.val]

\* An optional primitive field with an override other than "String" got the
\* override as its raw type.
C9_Witness ==
    /\ Generated
    /\ field.ty = OptionOf("u128") /\ field.raw_type = Some("RawInner")
    /\ generated.raw_type = [is_option |-> TRUE, ident |-> "RawInner"]

\* C10: in a nested raw document a leaf's fallback warning shows the default
\* exactly when the leaf itself is not marked secret, whatever the enclosing
\* field's secret attribute.
C10_NestedSecretIgnored ==
    (AfterResolve /\ generated.raw_type.ident = "RawInner")
        => \A i \in 1..Len(log) :
              IF unwrap_or(inner.secret, FALSE)
              THEN log[i].fmt \in SecretTexts /\ Len(log[i].args) = 1
              ELSE /\ log[i].fmt \notin SecretTexts
                   /\ Len(log[i].args) = 2
                   /\ HasShape(doc.leaf.str) => log[i].args[2] = DefaultOf(doc.leaf.str)

\* A nested field marked secret whose leaf is not: the leaf's default is in
\* the warning.
C10_Witness ==
    /\ AfterResolve /\ generated.raw_type.ident = "RawInner"
    /\ field.secret = Some(TRUE) /\ inner.secret = None
    /\ Len(log) = 1
    /\ log[1].args = <<Name, <<"a", "b", "c">>>>

====
